---- MODULE Spec2Model ----
(***************************************************************************)
(* Reset/watchdog service of reset_script.py: the boot sequence (main),   *)
(* the watchdog thread (periodic_reset_task), the Flask handlers           *)
(* (health_check, manual_reset, index) and reset_database, the routine     *)
(* they share under reset_lock.  Every read or write of a shared variable  *)
(* (reset_lock, reset_count, last_reset_time, the seed file, the database  *)
(* connection) is a step of its own, so threads interleave as they do      *)
(* under the interpreter.  The database and the file system are the        *)
(* environment: every call into them may succeed or raise.                 *)
(***************************************************************************)
EXTENDS Integers, Sequences, FiniteSets, TLC

\* ------------------------------------------------------------------ bounds
\* Calls of reset_database the model lets the callers start in total.
MaxCalls == 3
\* Last tick of the wall clock.
MaxClock == 1
\* Longest seed file of the specification that reads arbitrary files.
MaxLen == 4
\* Largest max_uses of the coupon the requests redeem.
MaxUses == 2

\* ------------------------------------------------------- program constants
\* RESET_INTERVAL is read from the environment (default 900 s); the model
\* runs the service configured with an interval of one clock tick.
RESET_INTERVAL == 1
\* wait_for_database(max_retries=30, ...)
max_retries == 30

\* Python's None; a value that may be None is <<>> or <<v>>.
None == <<>>
Some(v) == <<v>>
\* threading.Lock() not held; a held lock is named by its holder.
Unlocked == "unlocked"

\* ---------------------------------------------------------------- threads
Manual == {"m1", "m2"}
Callers == {"main", "watchdog"} \cup Manual
Procs == Callers \cup {"health", "index"}

\* ------------------------------------------------------------ seed script
\* A seed file is a sequence of one-character strings.
SeedThree == <<"a", ";", "b", ";", "\n", "c", ";", "\n">>
SeedOne == <<"d", ";">>
SeedTexts == {SeedThree, SeedOne}

\* What is at INIT_SQL_PATH: a readable file with its text, or nothing.
File(text) == [exists |-> TRUE, text |-> text]
NoFile == [exists |-> FALSE, text |-> <<>>]
SeedFiles == {File(t) : t \in SeedTexts}

\* The characters of the arbitrary seed files: a letter, the delimiter, the
\* character of the comment marker, a line break and a blank.
SeedAlphabet == {"a", ";", "-", "\n", " "}
AnyTexts == UNION {[1..n -> SeedAlphabet] : n \in 0..MaxLen}

IsSpace(c) == c \in {" ", "\n"}

RECURSIVE LStrip(_)
LStrip(s) == IF s # <<>> /\ IsSpace(Head(s)) THEN LStrip(Tail(s)) ELSE s

RECURSIVE RStrip(_)
RStrip(s) ==
    IF s # <<>> /\ IsSpace(s[Len(s)]) THEN RStrip(SubSeq(s, 1, Len(s) - 1)) ELSE s

\* Leading white space only.
Strip_LeftOnly(s) == LStrip(s)

\* str.strip()
Strip(s) == RStrip(LStrip(s))

\* str.split(';'): n delimiters give n + 1 segments, empty ones included.
RECURSIVE SplitFrom(_, _, _)
SplitFrom(s, i, cur) ==
    IF i > Len(s) THEN <<cur>>
    ELSE IF s[i] = ";" THEN <<cur>> \o SplitFrom(s, i + 1, <<>>)
    ELSE SplitFrom(s, i + 1, Append(cur, s[i]))

Split(s) == SplitFrom(s, 1, <<>>)

RECURSIVE StripNonEmpty(_)
StripNonEmpty(segs) ==
    IF segs = <<>> THEN <<>>
    ELSE IF Strip(Head(segs)) # <<>>
         THEN <<Strip(Head(segs))>> \o StripNonEmpty(Tail(segs))
         ELSE StripNonEmpty(Tail(segs))

\* [stmt.strip() for stmt in sql_script.split(';') if stmt.strip()]
ParseStatements(sql_script) == StripNonEmpty(Split(sql_script))

\* statement.startswith('--') or not statement
SkippedByLoop(statement) ==
    \/ statement = <<>>
    \/ Len(statement) >= 2 /\ statement[1] = "-" /\ statement[2] = "-"

\* ------------------------------------------------------------------ state
VARIABLES
    pc,               \* position of every thread
    reset_lock,       \* holder of threading.Lock(), or Unlocked
    reset_count,      \* global reset_count
    last_reset_time,  \* global last_reset_time: None or Some(clock value)
    now,              \* wall clock (datetime.now())
    coupon,           \* the row of the coupons table the requests redeem
    redeem,           \* redeem_coupon's locals and response, per request
    seed,             \* the file at INIT_SQL_PATH, or NoFile
    conns,            \* callers whose root connection of reset_database is open
    loc,              \* reset_database's locals, per caller
    obs,              \* per call: what the call saw and did (history)
    calls,            \* calls of reset_database started so far (history)
    okReturns,        \* calls of reset_database that returned success (history)
    attempt,          \* wait_for_database's loop variable
    wakeAt,           \* end of the watchdog's current sleep
    sleptAt,          \* the clock when that sleep began (history)
    hloc,             \* health_check's locals
    mloc,             \* manual_reset's response under construction
    resp              \* last HTTP response of each handler, or None

vars == <<pc, reset_lock, reset_count, last_reset_time, now, coupon, redeem, seed, conns, loc,
          obs, calls, okReturns, attempt, wakeAt, sleptAt, hloc, mloc, resp>>

NoResult == [ok |-> FALSE, msg |-> "none", n |-> 0]
Success(n) == [ok |-> TRUE, msg |-> "success", n |-> n]
Failure(m) == [ok |-> FALSE, msg |-> m, n |-> 0]

NoLoc == [sql_script |-> <<>>, statements |-> <<>>, idx |-> 0, exc |-> "none",
          result |-> NoResult]
\* History of a call: the clock when it was made, reset_count and
\* last_reset_time when it got the lock, whether line 98 found the file
\* missing, the text line 104 found in the file, whether it opened a
\* connection, the positions (in `statements`) of the statements it handed to
\* cursor.execute, in the order of the calls, how many of them raised
\* pymysql.Error, and how many times it called connection.commit().
NoObs == [start |-> 0, count0 |-> 0, time0 |-> None, missing |-> FALSE,
          fileRead |-> None, opened |-> FALSE, submitted |-> <<>>,
          failed |-> 0, commits |-> 0]
NoHealth == [uptime |-> None, last_reset |-> None]

\* The workers that serve POST /api/coupons/<code>/redeem.
Redeemers == {"r1", "r2", "r3"}
\* A row of the coupons table.
Row(uses, max) == [current_uses |-> uses, max_uses |-> max]
\* The coupon of the services that do not redeem it: single-use, unused.
SeededCoupon == Some(Row(0, 1))
\* redeem_coupon's position, the row its SELECT returned, its response.
NoRedeem == [pc |-> "idle", coupon |-> None, resp |-> None]

\* A process that starts with a reset already counted.
InitialResetState_Counted == [reset_count |-> 1, last_reset_time |-> None]

\* 51-52: last_reset_time = None, reset_count = 0
InitialResetState == [reset_count |-> 0, last_reset_time |-> None]

Init ==
    /\ pc = [p \in Procs |->
                IF p = "main" THEN "wait_db"
                ELSE IF p = "watchdog" THEN "unstarted"
                ELSE "idle"]
    /\ reset_lock = Unlocked
    /\ reset_count = InitialResetState.reset_count
    /\ last_reset_time = InitialResetState.last_reset_time
    /\ now = 0
    /\ coupon = SeededCoupon
    /\ redeem = [r \in Redeemers |-> NoRedeem]
    /\ seed \in SeedFiles \cup {NoFile}
    /\ conns = {}
    /\ loc = [p \in Callers |-> NoLoc]
    /\ obs = [p \in Callers |-> NoObs]
    /\ calls = 0
    /\ okReturns = 0
    /\ attempt = 1
    /\ wakeAt = 0
    /\ sleptAt = 0
    /\ hloc = NoHealth
    /\ mloc = [m \in Manual |-> None]
    /\ resp = [p \in Manual \cup {"health"} |-> None]


\* ------------------------------------------------- reset_database (85-156)
ResetPcs == {"exists", "read", "connect", "exec", "set_time", "set_count",
             "close", "release"}

\* A lock that never makes a caller wait.
LockFree_Always(l) == TRUE

\* threading.Lock: `with reset_lock` enters only while nobody holds the lock.
LockFree(l) == l = Unlocked

\* The existence check left out.
SeedExists_Always(f) == TRUE

\* os.path.exists(INIT_SQL_PATH)
SeedExists(f) == f.exists

\* Only `except pymysql.Error`, the catch-all handler left out.
Catches_OnlyMysql(kind) == kind = "mysql"

\* except pymysql.Error (148) / except Exception (153): the kinds of
\* exception the handlers of reset_database turn into a result.
Catches(kind) == kind \in {"mysql", "unexpected"}

\* The result of a call in which `kind` was raised inside the outer try.
Outcome(kind) == IF Catches(kind) THEN Failure(kind) ELSE Failure("raised")

\* The statement loop without its try/except.
StatementErrorCaught_Never(kind) == FALSE

\* except pymysql.Error inside the statement loop (129-131): logged, and the
\* loop goes on.
StatementErrorCaught(kind) == kind = "mysql"

\* The counter left as it is, and the counter bumped twice.
Incremented_Not(c) == c
Incremented_Twice(c) == c + 2

\* reset_count += 1
Incremented(c) == c + 1

\* The connection never closed.
ConnsAfterClose_Leak(cs, p) == cs

\* finally: connection.close()
ConnsAfterClose(cs, p) == cs \ {p}

\* The lock released on the success path only.
LockAfterExit_OnSuccess(p, result) == IF result.ok THEN Unlocked ELSE p

\* leaving `with reset_lock`, by return or by exception
LockAfterExit(p, result) == Unlocked

\* A caller enters reset_database and reaches `with reset_lock`.
EnterReset(p) ==
    /\ calls < MaxCalls
    /\ calls' = calls + 1
    /\ pc' = [pc EXCEPT ![p] = "acquire"]
    /\ loc' = [loc EXCEPT ![p] = NoLoc]
    /\ obs' = [obs EXCEPT ![p] = [NoObs EXCEPT !.start = now]]

Acquire(p) ==
    /\ pc[p] = "acquire"
    /\ LockFree(reset_lock)
    /\ reset_lock' = p
    /\ pc' = [pc EXCEPT ![p] = "exists"]
    /\ obs' = [obs EXCEPT ![p].count0 = reset_count, ![p].time0 = last_reset_time]
    /\ UNCHANGED <<reset_count, last_reset_time, now, coupon, redeem, seed, conns, loc, calls,
                   okReturns, attempt, wakeAt, sleptAt, hloc, mloc, resp>>

\* 98-101
CheckSeed(p) ==
    /\ pc[p] = "exists"
    /\ obs' = [obs EXCEPT ![p].missing = ~seed.exists]
    /\ IF SeedExists(seed)
       THEN /\ pc' = [pc EXCEPT ![p] = "read"]
            /\ loc' = loc
       ELSE /\ pc' = [pc EXCEPT ![p] = "release"]
            /\ loc' = [loc EXCEPT ![p].result = Failure("notfound")]
    /\ UNCHANGED <<reset_lock, reset_count, last_reset_time, now, coupon, redeem, seed, conns,
                   calls, okReturns, attempt, wakeAt, sleptAt, hloc, mloc, resp>>

\* The text of the file the service was started with, kept for every reset.
ReadText_Cached(f) == SeedThree

\* 103-104: with open(INIT_SQL_PATH, 'r') as f: sql_script = f.read()
ReadText(f) == f.text

\* 103-104: open() raises FileNotFoundError when the file went away since 98.
ReadSeed(p) ==
    /\ pc[p] = "read"
    /\ IF ~seed.exists
       THEN /\ pc' = [pc EXCEPT ![p] = "release"]
            /\ loc' = [loc EXCEPT ![p].exc = "unexpected",
                                  ![p].result = Outcome("unexpected")]
            /\ obs' = obs
       ELSE /\ pc' = [pc EXCEPT ![p] = "connect"]
            /\ loc' = [loc EXCEPT ![p].sql_script = ReadText(seed)]
            /\ obs' = [obs EXCEPT ![p].fileRead = Some(seed.text)]
    /\ UNCHANGED <<reset_lock, reset_count, last_reset_time, now, coupon, redeem, seed, conns,
                   calls, okReturns, attempt, wakeAt, sleptAt, hloc, mloc, resp>>

\* 107-120: pymysql.connect, then the cursor and the statement list.
Connect(p) ==
    /\ pc[p] = "connect"
    /\ \E out \in {"ok", "mysql"} :
        /\ IF out = "ok"
           THEN /\ conns' = conns \cup {p}
                /\ obs' = [obs EXCEPT ![p].opened = TRUE]
                /\ pc' = [pc EXCEPT ![p] = "exec"]
                /\ loc' = [loc EXCEPT
                             ![p].statements = ParseStatements(loc[p].sql_script),
                             ![p].idx = 1]
           ELSE /\ conns' = conns
                /\ obs' = obs
                /\ pc' = [pc EXCEPT ![p] = "release"]
                /\ loc' = [loc EXCEPT ![p].exc = out, ![p].result = Outcome(out)]
    /\ UNCHANGED <<reset_lock, reset_count, last_reset_time, now, coupon, redeem, seed, calls,
                   okReturns, attempt, wakeAt, sleptAt, hloc, mloc, resp>>

\* 122-131: one iteration of the statement loop.
ExecStatement(p) ==
    /\ pc[p] = "exec"
    /\ loc[p].idx <= Len(loc[p].statements)
    /\ LET i == loc[p].idx
           statement == loc[p].statements[i]
       IN  IF SkippedByLoop(statement)
           THEN /\ obs' = obs
                /\ loc' = [loc EXCEPT ![p].idx = i + 1]
                /\ pc' = pc
           ELSE \E out \in {"ok", "mysql", "unexpected"} :
                /\ obs' = [obs EXCEPT
                             ![p].submitted = Append(@, i),
                             ![p].failed = IF out = "mysql" THEN @ + 1 ELSE @]
                /\ IF out = "ok" \/ StatementErrorCaught(out)
                   THEN /\ loc' = [loc EXCEPT ![p].idx = i + 1]
                        /\ pc' = pc
                   ELSE /\ loc' = [loc EXCEPT ![p].exc = out]
                        /\ pc' = [pc EXCEPT ![p] = "close"]
    /\ UNCHANGED <<reset_lock, reset_count, last_reset_time, now, coupon, redeem, seed, conns,
                   calls, okReturns, attempt, wakeAt, sleptAt, hloc, mloc, resp>>

\* A commit whose failure is swallowed: the call goes on to 136.
Commit_IgnoresFailure(p) ==
    /\ pc[p] = "exec"
    /\ loc[p].idx > Len(loc[p].statements)
    /\ obs' = [obs EXCEPT ![p].commits = @ + 1]
    /\ \E out \in {"ok", "mysql"} :
        /\ pc' = [pc EXCEPT ![p] = "set_time"]
        /\ loc' = IF out = "ok" THEN loc ELSE [loc EXCEPT ![p].exc = out]
    /\ UNCHANGED <<reset_lock, reset_count, last_reset_time, now, coupon, redeem, seed, conns,
                   calls, okReturns, attempt, wakeAt, sleptAt, hloc, mloc, resp>>

\* 133: connection.commit() once the loop is over.
Commit(p) ==
    /\ pc[p] = "exec"
    /\ loc[p].idx > Len(loc[p].statements)
    /\ obs' = [obs EXCEPT ![p].commits = @ + 1]
    /\ \E out \in {"ok", "mysql"} :
        /\ IF out = "ok"
           THEN /\ pc' = [pc EXCEPT ![p] = "set_time"]
                /\ loc' = loc
           ELSE /\ pc' = [pc EXCEPT ![p] = "close"]
                /\ loc' = [loc EXCEPT ![p].exc = out]
    /\ UNCHANGED <<reset_lock, reset_count, last_reset_time, now, coupon, redeem, seed, conns,
                   calls, okReturns, attempt, wakeAt, sleptAt, hloc, mloc, resp>>

\* 136: last_reset_time = datetime.now()
SetTime(p) ==
    /\ pc[p] = "set_time"
    /\ last_reset_time' = Some(now)
    /\ pc' = [pc EXCEPT ![p] = "set_count"]
    /\ UNCHANGED <<reset_lock, reset_count, now, coupon, redeem, seed, conns, loc, obs, calls,
                   okReturns, attempt, wakeAt, sleptAt, hloc, mloc, resp>>

\* 137-143: reset_count += 1, the message "Reset #{reset_count}", return.
SetCount(p) ==
    /\ pc[p] = "set_count"
    /\ reset_count' = Incremented(reset_count)
    /\ loc' = [loc EXCEPT ![p].result = Success(reset_count')]
    /\ pc' = [pc EXCEPT ![p] = "close"]
    /\ UNCHANGED <<reset_lock, last_reset_time, now, coupon, redeem, seed, conns, obs, calls,
                   okReturns, attempt, wakeAt, sleptAt, hloc, mloc, resp>>

\* 145-156: finally: connection.close(), then the handler of what was raised.
Close(p) ==
    /\ pc[p] = "close"
    /\ conns' = ConnsAfterClose(conns, p)
    /\ loc' = [loc EXCEPT ![p].result =
                 IF loc[p].exc = "none" THEN @ ELSE Outcome(loc[p].exc)]
    /\ pc' = [pc EXCEPT ![p] = "release"]
    /\ UNCHANGED <<reset_lock, reset_count, last_reset_time, now, coupon, redeem, seed, obs, calls,
                   okReturns, attempt, wakeAt, sleptAt, hloc, mloc, resp>>

\* Leaving `with reset_lock` (92): the call returns its result, or the
\* exception no handler caught goes on to the caller.
Release(p) ==
    /\ pc[p] = "release"
    /\ reset_lock' = LockAfterExit(p, loc[p].result)
    /\ pc' = [pc EXCEPT ![p] =
                IF loc[p].result.msg = "raised" THEN "raised" ELSE "returned"]
    /\ okReturns' = IF loc[p].result.ok THEN okReturns + 1 ELSE okReturns
    /\ loc' = [loc EXCEPT ![p] = [NoLoc EXCEPT !.result = loc[p].result]]
    /\ obs' = [obs EXCEPT ![p] = NoObs]
    /\ UNCHANGED <<reset_count, last_reset_time, now, coupon, redeem, seed, conns, calls,
                   attempt, wakeAt, sleptAt, hloc, mloc, resp>>

reset_database(p) ==
    \/ Acquire(p) \/ CheckSeed(p) \/ ReadSeed(p) \/ Connect(p)
    \/ ExecStatement(p) \/ Commit(p) \/ SetTime(p) \/ SetCount(p)
    \/ Close(p) \/ Release(p)


\* ------------------------------------------------------------ environment
Tick ==
    /\ now < MaxClock
    /\ now' = now + 1
    /\ UNCHANGED <<coupon, redeem>>
    /\ UNCHANGED <<pc, reset_lock, reset_count, last_reset_time, seed, conns,
                   loc, obs, calls, okReturns, attempt, wakeAt, sleptAt, hloc, mloc, resp>>

\* Somebody replaces or removes the file at INIT_SQL_PATH.
SeedChange ==
    /\ \E f \in (SeedFiles \cup {NoFile}) \ {seed} : seed' = f
    /\ UNCHANGED <<pc, reset_lock, reset_count, last_reset_time, now, coupon, redeem, conns,
                   loc, obs, calls, okReturns, attempt, wakeAt, sleptAt, hloc, mloc, resp>>

\* ---------------------------------------------------------- main (560-589)
\* A loop that goes round once more.
AttemptsLeft_OneMore(a) == a <= max_retries

\* 65: for attempt in range(1, max_retries + 1)
AttemptsLeft(a) == a < max_retries

\* One iteration of wait_for_database's loop (65-79), and main's exit (572-574)
\* when the last one fails.
WaitForDatabase ==
    /\ pc["main"] = "wait_db"
    /\ \E out \in {"ok", "mysql"} :
        IF out = "ok"
        THEN /\ pc' = [pc EXCEPT !["main"] = "init_reset"]
             /\ attempt' = 0
        ELSE IF AttemptsLeft(attempt)
        THEN /\ pc' = pc
             /\ attempt' = attempt + 1
        ELSE /\ pc' = [pc EXCEPT !["main"] = "exit1"]
             /\ attempt' = 0
    /\ UNCHANGED <<reset_lock, reset_count, last_reset_time, now, coupon, redeem, seed, conns,
                   loc, obs, calls, okReturns, wakeAt, sleptAt, hloc, mloc, resp>>

\* 576-578
InitialReset ==
    /\ pc["main"] = "init_reset"
    /\ EnterReset("main")
    /\ UNCHANGED <<reset_lock, reset_count, last_reset_time, now, coupon, redeem, seed, conns,
                   okReturns, attempt, wakeAt, sleptAt, hloc, mloc, resp>>

\* A main that exits when the initial reset fails.
AfterInitialReset_Fatal(result) == IF result.ok THEN "start_flask" ELSE "exit1"

\* 579-581: a failed initial reset is logged ("Service will continue");
\* where main goes next.
AfterInitialReset(result) == "start_flask"

\* 579-585, and the thread's first time.sleep(RESET_INTERVAL) (167-170)
StartWatchdog ==
    /\ pc["main"] = "returned"
    /\ pc["watchdog"] = "unstarted"
    /\ pc' = [pc EXCEPT !["main"] = AfterInitialReset(loc["main"].result),
                         !["watchdog"] = "sleep"]
    /\ wakeAt' = now + RESET_INTERVAL
    /\ sleptAt' = now
    /\ loc' = [loc EXCEPT !["main"] = NoLoc]
    /\ UNCHANGED <<reset_lock, reset_count, last_reset_time, now, coupon, redeem, seed, conns,
                   obs, calls, okReturns, attempt, hloc, mloc, resp>>

\* 587-589: app.run
StartFlask ==
    /\ pc["main"] = "start_flask"
    /\ pc' = [pc EXCEPT !["main"] = "serving"]
    /\ UNCHANGED <<reset_lock, reset_count, last_reset_time, now, coupon, redeem, seed, conns,
                   loc, obs, calls, okReturns, attempt, wakeAt, sleptAt, hloc, mloc, resp>>

\* A server that takes requests from the start of the process.
Serving_FromStart == pc["main"] # "exit1"

\* main is inside app.run (589): requests are taken.
Serving == pc["main"] = "serving"

\* --------------------------------------------- periodic_reset_task (163-175)
\* time.sleep(RESET_INTERVAL) is over; the scheduled reset is called (170-172).
WatchdogWake ==
    /\ pc["watchdog"] = "sleep"
    /\ now >= wakeAt
    /\ EnterReset("watchdog")
    /\ wakeAt' = 0
    /\ sleptAt' = 0
    /\ UNCHANGED <<reset_lock, reset_count, last_reset_time, now, coupon, redeem, seed, conns,
                   okReturns, attempt, hloc, mloc, resp>>

\* A loop that gives up after a failed reset.
AfterScheduledReset_GivesUp(result) == IF result.ok THEN "sleep" ELSE "stopped"

\* 174-175: a failure is logged, nothing else; where the thread goes next.
AfterScheduledReset(result) == "sleep"

\* 174-175, then `while True` goes back to sleep.
WatchdogLoop ==
    /\ pc["watchdog"] = "returned"
    /\ pc' = [pc EXCEPT !["watchdog"] = AfterScheduledReset(loc["watchdog"].result)]
    /\ wakeAt' = now + RESET_INTERVAL
    /\ sleptAt' = now
    /\ loc' = [loc EXCEPT !["watchdog"] = NoLoc]
    /\ UNCHANGED <<reset_lock, reset_count, last_reset_time, now, coupon, redeem, seed, conns,
                   obs, calls, okReturns, attempt, hloc, mloc, resp>>

\* ----------------------------------------------------- Flask handlers
\* The strings of a response: datetime.isoformat(), and 'Never'.
IsoFormat(t) == <<"iso", t>>
Never == <<"Never">>

\* POST /reset: 206-213
ManualRequest(m) ==
    /\ Serving
    /\ pc[m] = "idle"
    /\ EnterReset(m)
    /\ UNCHANGED <<reset_lock, reset_count, last_reset_time, now, coupon, redeem, seed, conns,
                   okReturns, attempt, wakeAt, sleptAt, hloc, mloc, resp>>

\* A handler that counts the reset itself, on top of reset_database.
ManualReadCount_Counts(m) ==
    /\ pc[m] = "returned"
    /\ loc[m].result.ok
    /\ reset_count' = reset_count + 1
    /\ mloc' = [mloc EXCEPT ![m] = Some(reset_count')]
    /\ pc' = [pc EXCEPT ![m] = "m220"]
    /\ UNCHANGED <<reset_lock, last_reset_time, now, coupon, redeem, seed, conns,
                   loc, obs, calls, okReturns, attempt, wakeAt, sleptAt, hloc, resp>>

\* 215-219: success, so the response reads the global reset_count
ManualReadCount(m) ==
    /\ pc[m] = "returned"
    /\ loc[m].result.ok
    /\ mloc' = [mloc EXCEPT ![m] = Some(reset_count)]
    /\ pc' = [pc EXCEPT ![m] = "m220"]
    /\ UNCHANGED <<reset_lock, reset_count, last_reset_time, now, coupon, redeem, seed, conns,
                   loc, obs, calls, okReturns, attempt, wakeAt, sleptAt, hloc, resp>>

\* 220-221: ... and the global last_reset_time
ManualRespondOk(m) ==
    /\ pc[m] = "m220"
    /\ resp' = [resp EXCEPT ![m] =
                  IF last_reset_time = None
                  THEN Some([code |-> 500, status |-> "exception"])
                  ELSE Some([code |-> 200, status |-> "success",
                             message |-> loc[m].result,
                             reset_count |-> mloc[m][1],
                             timestamp |-> IsoFormat(last_reset_time[1])])]
    /\ pc' = [pc EXCEPT ![m] = "responded"]
    /\ UNCHANGED <<reset_lock, reset_count, last_reset_time, now, coupon, redeem, seed, conns,
                   loc, obs, calls, okReturns, attempt, wakeAt, sleptAt, hloc, mloc>>

\* A handler that answers 200 whatever reset_database returned.
ManualRespondError_Ok(m) ==
    /\ pc[m] = "returned"
    /\ ~loc[m].result.ok
    /\ resp' = [resp EXCEPT ![m] = Some([code |-> 200, status |-> "success",
                                         message |-> loc[m].result])]
    /\ pc' = [pc EXCEPT ![m] = "responded"]
    /\ UNCHANGED <<reset_lock, reset_count, last_reset_time, now, coupon, redeem, seed, conns,
                   loc, obs, calls, okReturns, attempt, wakeAt, sleptAt, hloc, mloc>>

\* 222-226
ManualRespondError(m) ==
    /\ pc[m] = "returned"
    /\ ~loc[m].result.ok
    /\ resp' = [resp EXCEPT ![m] = Some([code |-> 500, status |-> "error",
                                         message |-> loc[m].result])]
    /\ pc' = [pc EXCEPT ![m] = "responded"]
    /\ UNCHANGED <<reset_lock, reset_count, last_reset_time, now, coupon, redeem, seed, conns,
                   loc, obs, calls, okReturns, attempt, wakeAt, sleptAt, hloc, mloc>>

\* The response has left; the worker is free for the next request.
ManualDone(m) ==
    /\ pc[m] = "responded"
    /\ pc' = [pc EXCEPT ![m] = "idle"]
    /\ resp' = [resp EXCEPT ![m] = None]
    /\ mloc' = [mloc EXCEPT ![m] = None]
    /\ loc' = [loc EXCEPT ![m] = NoLoc]
    /\ UNCHANGED <<reset_lock, reset_count, last_reset_time, now, coupon, redeem, seed, conns,
                   obs, calls, okReturns, attempt, wakeAt, sleptAt, hloc>>

manual_reset(m) ==
    \/ ManualRequest(m) \/ ManualReadCount(m) \/ ManualRespondOk(m)
    \/ ManualRespondError(m) \/ ManualDone(m)

HealthFrame ==
    UNCHANGED <<reset_lock, reset_count, last_reset_time, now, coupon, redeem, seed, conns,
                loc, obs, calls, okReturns, attempt, wakeAt, sleptAt, mloc>>

\* A handler that waits until no reset holds the lock.
HealthRequest_Waits ==
    /\ Serving
    /\ pc["health"] = "idle"
    /\ LockFree(reset_lock)
    /\ pc' = [pc EXCEPT !["health"] = "h188"]
    /\ UNCHANGED <<hloc, resp>>
    /\ HealthFrame

\* GET /health arrives (182-187)
HealthRequest ==
    /\ Serving
    /\ pc["health"] = "idle"
    /\ pc' = [pc EXCEPT !["health"] = "h188"]
    /\ UNCHANGED <<hloc, resp>>
    /\ HealthFrame

\* An exception in a handler: Flask answers 500.
HealthRaise ==
    /\ resp' = [resp EXCEPT !["health"] = Some([code |-> 500])]
    /\ pc' = [pc EXCEPT !["health"] = "responded"]
    /\ hloc' = NoHealth

\* 188: if last_reset_time:
Health188 ==
    /\ pc["health"] = "h188"
    /\ pc' = [pc EXCEPT !["health"] =
                IF last_reset_time # None THEN "h189" ELSE "h194"]
    /\ UNCHANGED <<hloc, resp>>
    /\ HealthFrame

\* 189: uptime = (datetime.now() - last_reset_time).total_seconds()
Health189 ==
    /\ pc["health"] = "h189"
    /\ IF last_reset_time = None
       THEN HealthRaise
       ELSE /\ hloc' = [hloc EXCEPT !.uptime = Some(now - last_reset_time[1])]
            /\ pc' = [pc EXCEPT !["health"] = "h194"]
            /\ resp' = resp
    /\ HealthFrame

\* 194: ... if last_reset_time else 'Never'
Health194 ==
    /\ pc["health"] = "h194"
    /\ IF last_reset_time # None
       THEN /\ pc' = [pc EXCEPT !["health"] = "h194iso"]
            /\ hloc' = hloc
       ELSE /\ pc' = [pc EXCEPT !["health"] = "h195"]
            /\ hloc' = [hloc EXCEPT !.last_reset = Never]
    /\ resp' = resp
    /\ HealthFrame

\* 194: last_reset_time.isoformat()
Health194Iso ==
    /\ pc["health"] = "h194iso"
    /\ IF last_reset_time = None
       THEN HealthRaise
       ELSE /\ hloc' = [hloc EXCEPT !.last_reset = IsoFormat(last_reset_time[1])]
            /\ pc' = [pc EXCEPT !["health"] = "h195"]
            /\ resp' = resp
    /\ HealthFrame

\* 195-198: reset_count is read and the response leaves
Health195 ==
    /\ pc["health"] = "h195"
    /\ resp' = [resp EXCEPT !["health"] =
                  Some([code |-> 200, status |-> "healthy",
                        last_reset |-> hloc.last_reset,
                        reset_count |-> reset_count,
                        seconds_since_last_reset |-> hloc.uptime,
                        reset_interval_seconds |-> RESET_INTERVAL])]
    /\ pc' = [pc EXCEPT !["health"] = "responded"]
    /\ hloc' = NoHealth
    /\ HealthFrame

\* The response has left.
HealthDone ==
    /\ pc["health"] = "responded"
    /\ pc' = [pc EXCEPT !["health"] = "idle"]
    /\ resp' = [resp EXCEPT !["health"] = None]
    /\ hloc' = hloc
    /\ HealthFrame

health_check ==
    \/ HealthRequest \/ Health188 \/ Health189 \/ Health194 \/ Health194Iso
    \/ Health195 \/ HealthDone

\* ------------------------------------------------ redeem_coupon (361-414)
\* What the reset service's own variables do while a coupon is redeemed.
ServiceFrame ==
    UNCHANGED <<pc, reset_lock, reset_count, last_reset_time, now, seed, conns,
                loc, obs, calls, okReturns, attempt, wakeAt, sleptAt, hloc,
                mloc, resp>>

\* except pymysql.Error (413-414)
RedeemError(r) ==
    redeem' = [redeem EXCEPT ![r].pc = "responded",
                             ![r].resp = Some([code |-> 500])]

\* The request arrives; get_db_connection() (371).
RedeemRequest(r) ==
    /\ Serving
    /\ redeem[r].pc = "idle"
    /\ \E out \in {"ok", "mysql"} :
        IF out = "ok"
        THEN redeem' = [redeem EXCEPT ![r].pc = "select"]
        ELSE RedeemError(r)
    /\ coupon' = coupon
    /\ ServiceFrame

\* 374-379: SELECT * FROM coupons WHERE code = %s; no row, 404.
RedeemSelect(r) ==
    /\ redeem[r].pc = "select"
    /\ \E out \in {"ok", "mysql"} :
        IF out # "ok" THEN RedeemError(r)
        ELSE IF coupon = None
        THEN redeem' = [redeem EXCEPT ![r].pc = "responded",
                                      ![r].resp = Some([code |-> 404])]
        ELSE redeem' = [redeem EXCEPT ![r].pc = "check", ![r].coupon = coupon]
    /\ coupon' = coupon
    /\ ServiceFrame

\* A check that lets a coupon at its limit through.
FullyRedeemed_OneMore(row) == row.current_uses > row.max_uses

\* 382: if coupon['current_uses'] >= coupon['max_uses']
FullyRedeemed(row) == row.current_uses >= row.max_uses

\* 382-391: the availability check on the row that was read, then the
\* processing delay.
RedeemCheck(r) ==
    /\ redeem[r].pc = "check"
    /\ LET row == redeem[r].coupon[1]
       IN  IF FullyRedeemed(row)
           THEN redeem' = [redeem EXCEPT
                             ![r].pc = "responded",
                             ![r].resp = Some([code |-> 400,
                                               current_uses |-> row.current_uses,
                                               max_uses |-> row.max_uses])]
           ELSE redeem' = [redeem EXCEPT ![r].pc = "update"]
    /\ coupon' = coupon
    /\ ServiceFrame

\* 394-398: UPDATE coupons SET current_uses = current_uses + 1, and the
\* commit that makes it visible; the database adds one to the row as it is
\* now, not as the request read it.
RedeemUpdate(r) ==
    /\ redeem[r].pc = "update"
    /\ \E out \in {"ok", "mysql"} :
        IF out = "ok"
        THEN /\ coupon' = IF coupon = None THEN None
                          ELSE Some([coupon[1] EXCEPT !.current_uses = @ + 1])
             /\ redeem' = [redeem EXCEPT ![r].pc = "fetch"]
        ELSE /\ coupon' = coupon
             /\ RedeemError(r)
    /\ ServiceFrame

\* 401-410: the row is read again and the request answers 200 with it.
RedeemFetch(r) ==
    /\ redeem[r].pc = "fetch"
    /\ \E out \in {"ok", "mysql"} :
        IF out = "ok"
        THEN redeem' = [redeem EXCEPT
                          ![r].pc = "responded",
                          ![r].resp = Some([code |-> 200, coupon |-> coupon])]
        ELSE RedeemError(r)
    /\ coupon' = coupon
    /\ ServiceFrame

\* The response has left; the worker is free for the next request.
RedeemDone(r) ==
    /\ redeem[r].pc = "responded"
    /\ redeem' = [redeem EXCEPT ![r] = NoRedeem]
    /\ coupon' = coupon
    /\ ServiceFrame

redeem_coupon(r) ==
    \/ RedeemRequest(r) \/ RedeemSelect(r) \/ RedeemCheck(r)
    \/ RedeemUpdate(r) \/ RedeemFetch(r) \/ RedeemDone(r)

\* GET /: 229-257
\* The handler reads configuration only and answers 200 at once.
index ==
    /\ Serving
    /\ UNCHANGED vars

\* ------------------------------------------------------------------- spec
\* The service with its watchdog and two concurrent POST /reset workers.
Next ==
    \/ Tick
    \/ SeedChange
    \/ WaitForDatabase
    \/ InitialReset
    \/ StartWatchdog
    \/ StartFlask
    \/ WatchdogWake
    \/ WatchdogLoop
    \/ \E p \in Callers : reset_database(p)
    \/ \E m \in Manual : manual_reset(m)

Spec == Init /\ [][Next]_vars

\* The initial reset of main (576-578) on an arbitrary seed file: the database
\* was reachable, main is about to call reset_database, and nothing else runs
\* yet.
InitParse ==
    /\ pc = [p \in Procs |->
                IF p = "main" THEN "init_reset"
                ELSE IF p = "watchdog" THEN "unstarted"
                ELSE "idle"]
    /\ reset_lock = Unlocked
    /\ reset_count = InitialResetState.reset_count
    /\ last_reset_time = InitialResetState.last_reset_time
    /\ now = 0
    /\ coupon = SeededCoupon
    /\ redeem = [r \in Redeemers |-> NoRedeem]
    /\ seed \in {File(t) : t \in AnyTexts}
    /\ conns = {}
    /\ loc = [p \in Callers |-> NoLoc]
    /\ obs = [p \in Callers |-> NoObs]
    /\ calls = 0
    /\ okReturns = 0
    /\ attempt = 0
    /\ wakeAt = 0
    /\ sleptAt = 0
    /\ hloc = NoHealth
    /\ mloc = [m \in Manual |-> None]
    /\ resp = [p \in Manual \cup {"health"} |-> None]

NextParse ==
    \/ InitialReset
    \/ reset_database("main")

SpecParse == InitParse /\ [][NextParse]_vars

\* The coupons a redemption can meet: no row for the code, or a row with a
\* limit of 1..MaxUses that is used up to its limit at most.
AnyCoupons ==
    {None} \cup {Some(Row(u, m)) : u \in 0..MaxUses, m \in 1..MaxUses}

\* The service after boot (589): the initial reset has returned (here with
\* a failure), the watchdog is in its first sleep, Flask serves; the
\* coupons table holds whatever the database kept.
InitCoupon ==
    /\ pc = [p \in Procs |->
                IF p = "main" THEN "serving"
                ELSE IF p = "watchdog" THEN "sleep"
                ELSE "idle"]
    /\ reset_lock = Unlocked
    /\ reset_count = InitialResetState.reset_count
    /\ last_reset_time = InitialResetState.last_reset_time
    /\ now = 0
    /\ coupon \in {c \in AnyCoupons :
                      c # None => c[1].current_uses <= c[1].max_uses}
    /\ redeem = [r \in Redeemers |-> NoRedeem]
    /\ seed = NoFile
    /\ conns = {}
    /\ loc = [p \in Callers |-> NoLoc]
    /\ obs = [p \in Callers |-> NoObs]
    /\ calls = 1
    /\ okReturns = 0
    /\ attempt = 0
    /\ wakeAt = RESET_INTERVAL
    /\ sleptAt = 0
    /\ hloc = NoHealth
    /\ mloc = [m \in Manual |-> None]
    /\ resp = [p \in Manual \cup {"health"} |-> None]

\* Three concurrent redemptions of the same coupon.
NextCoupon == \E r \in Redeemers : redeem_coupon(r)

SpecCoupon == InitCoupon /\ [][NextCoupon]_vars

\* The service with its watchdog, one POST /reset worker, and the read-only
\* handlers GET /health and GET /.
NextHealth ==
    \/ Tick
    \/ SeedChange
    \/ WaitForDatabase
    \/ InitialReset
    \/ StartWatchdog
    \/ StartFlask
    \/ WatchdogWake
    \/ WatchdogLoop
    \/ \E p \in Callers : reset_database(p)
    \/ manual_reset("m1")
    \/ health_check
    \/ index

SpecHealth == Init /\ [][NextHealth]_vars

\* The service with its watchdog and one POST /reset worker, under fair
\* scheduling: a thread that can take a step of reset_database takes it (the
\* database calls terminate), and a thread that finds the lock free again and
\* again gets it.
NextLive ==
    \/ Tick
    \/ SeedChange
    \/ WaitForDatabase
    \/ InitialReset
    \/ StartWatchdog
    \/ StartFlask
    \/ WatchdogWake
    \/ WatchdogLoop
    \/ \E p \in Callers : reset_database(p)
    \/ manual_reset("m1")

InsideLock(p) ==
    \/ CheckSeed(p) \/ ReadSeed(p) \/ Connect(p) \/ ExecStatement(p)
    \/ Commit(p) \/ SetTime(p) \/ SetCount(p) \/ Close(p) \/ Release(p)

\* The threads that call reset_database in NextLive.
LiveCallers == {"main", "watchdog", "m1"}

Fairness ==
    \A p \in LiveCallers : SF_vars(Acquire(p)) /\ WF_vars(InsideLock(p))

SpecLive == Init /\ [][NextLive]_vars /\ Fairness


\* ================================================================ claims
InReset(p) == pc[p] \in ResetPcs
\* Where the call's connection is open.
DbPcs == {"exec", "set_time", "set_count", "close"}
\* The call has its result and still holds the lock.
AtReturn(p) == pc[p] = "release"

\* C1: at most one caller of reset_database (watchdog, initial reset, any
\* POST /reset handler) is inside the body guarded by reset_lock, and it is
\* the holder of the lock; a caller that finds the lock held stays waiting
\* at the lock (it is blocked, never turned away).
C1_MutualExclusion ==
    /\ [](\A p, q \in Callers :
            /\ InReset(p) => reset_lock = p
            /\ InReset(p) /\ InReset(q) => p = q)
    /\ [][\A p \in Callers :
            pc[p] = "acquire" /\ reset_lock # Unlocked => pc'[p] = "acquire"]_vars

C1_Witness ==
    /\ pc["m1"] \in DbPcs
    /\ pc["m2"] = "acquire"

\* C2: the database-executing phases of concurrent calls never overlap, and
\* whenever no call is inside the lock reset_count equals the number of calls
\* that returned success: every successful call counts, none is coalesced.
C2_NoCoalescing ==
    /\ \A p, q \in Callers : pc[p] \in DbPcs /\ pc[q] \in DbPcs => p = q
    /\ reset_lock = Unlocked => reset_count = okReturns

\* Both POST /reset requests were in flight together, both succeeded and both
\* have their answer.
C2_Witness ==
    /\ \A m \in Manual : pc[m] = "responded" /\ resp[m][1].code = 200
    /\ reset_lock = Unlocked
    /\ reset_count >= 2

\* C3: when a call returns success, reset_count is one more than when the
\* call got the lock, and last_reset_time is a timestamp no earlier than the
\* moment the call was made.
C3_SuccessUpdatesState ==
    \A p \in Callers :
        AtReturn(p) /\ loc[p].result.ok =>
            /\ reset_count = obs[p].count0 + 1
            /\ last_reset_time # None
            /\ last_reset_time[1] >= obs[p].start

C3_Witness ==
    \E p \in Callers :
        /\ AtReturn(p) /\ loc[p].result.ok
        /\ obs[p].start = 1
        /\ obs[p].count0 = 1

\* C4: a call that finds the seed file missing at line 98 returns
\* (False, "init.sql not found ..."), has opened no connection, has left
\* reset_count and last_reset_time as they were, and its next step releases
\* the lock and returns.
C4_MissingSeed ==
    /\ [](\A p \in Callers :
            obs[p].missing =>
                /\ AtReturn(p)
                /\ loc[p].result = Failure("notfound")
                /\ ~obs[p].opened /\ p \notin conns
                /\ reset_count = obs[p].count0
                /\ last_reset_time = obs[p].time0)
    /\ [][\A p \in Callers :
            obs[p].missing /\ pc'[p] # pc[p] =>
                /\ pc'[p] = "returned"
                /\ reset_lock' = Unlocked
                /\ ~loc'[p].result.ok]_vars

C4_Witness ==
    \E p \in Manual : obs[p].missing /\ AtReturn(p) /\ reset_count = 1

\* C5: no exception leaves reset_database; a call in which the connection,
\* a statement, the commit or the file read raised returns (False, message)
\* with reset_count and last_reset_time as they were when it got the lock.
C5_FailureIsAResult ==
    \A p \in Callers :
        /\ pc[p] # "raised"
        /\ loc[p].exc # "none" /\ pc[p] \in {"close", "release"} =>
            /\ reset_count = obs[p].count0
            /\ last_reset_time = obs[p].time0
        /\ loc[p].exc # "none" /\ AtReturn(p) =>
            /\ ~loc[p].result.ok
            /\ loc[p].result.msg \in {"mysql", "unexpected"}

\* An exception that is no pymysql.Error, raised while the connection was open.
C5_Witness ==
    \E p \in Callers :
        AtReturn(p) /\ loc[p].exc = "unexpected" /\ obs[p].opened

C8_ConnectionScoped ==
    /\ \A p \in Callers : p \in conns => reset_lock = p /\ pc[p] \in DbPcs
    /\ Cardinality(conns) <= 1

\* A call that opened a connection and failed is about to return with the
\* connection closed.
C8_Witness ==
    \E p \in Callers :
        AtReturn(p) /\ obs[p].opened /\ loc[p].exc = "mysql" /\ conns = {}


\* C7: the lock is held by nobody who has left reset_database, whatever the
\* exit path; so under fair scheduling every caller waiting at the lock, a
\* manual trigger waiting for a scheduled reset included, gets the lock, runs
\* its own call and returns from it with the lock released.
C7_NoCallerWaitsForever ==
    /\ [](\A p \in Callers : ~InReset(p) => reset_lock # p)
    /\ \A p \in LiveCallers :
          (pc[p] = "acquire") ~> (pc[p] = "returned" /\ reset_lock # p)

\* A manual trigger waits while a scheduled reset is at work on the database.
C7_Witness ==
    /\ pc["m1"] = "acquire"
    /\ reset_lock = "watchdog"
    /\ pc["watchdog"] \in DbPcs

\* C9: every step that changes reset_count or last_reset_time is a step of
\* lines 136-137 of reset_database, taken by the thread that holds the lock;
\* the steps of the handlers, of the watchdog's sleep and of the startup wait
\* leave both unchanged.
C9_OnlyResetWrites ==
    [][(reset_count' # reset_count \/ last_reset_time' # last_reset_time) =>
          \E p \in Callers :
              /\ reset_lock = p /\ reset_lock' = p
              /\ pc[p] \in {"set_time", "set_count"}
              /\ pc'[p] # pc[p]]_vars

\* The handlers are at work outside reset_database after a reset was counted.
C9_Witness ==
    /\ pc["m1"] = "m220"
    /\ pc["health"] = "h195"
    /\ pc["watchdog"] = "sleep"
    /\ reset_count = 2

\* C10: a GET /health answered while no reset has yet set last_reset_time
\* (which, once the server is up, is when the initial reset failed) reports
\* last_reset "Never" and reset_count 0.
C10_HealthBeforeAnyReset ==
    pc["health"] = "responded" /\ last_reset_time = None =>
        resp["health"] = Some([code |-> 200, status |-> "healthy",
                               last_reset |-> Never,
                               reset_count |-> 0,
                               seconds_since_last_reset |-> None,
                               reset_interval_seconds |-> RESET_INTERVAL])

C10_Witness ==
    /\ pc["health"] = "responded"
    /\ last_reset_time = None
    /\ okReturns = 0 /\ calls >= 1

\* ------------------------------------------------ the seed file, as a text
\* The segments of a text, read off the text itself: where its delimiters
\* are, where a segment that starts at `lo` ends, and which of its characters
\* are not white space.
Delimiters(s) == {i \in 1..Len(s) : s[i] = ";"}
SegmentStarts(s) == {1} \cup {i + 1 : i \in Delimiters(s)}
SegmentEnd(s, lo) ==
    IF \E d \in Delimiters(s) : d >= lo
    THEN (CHOOSE d \in Delimiters(s) :
            d >= lo /\ \A e \in Delimiters(s) : e >= lo => d <= e) - 1
    ELSE Len(s)
Ink(s, lo) == {j \in lo..SegmentEnd(s, lo) : s[j] \notin {" ", "\n"}}
FirstInk(s, lo) == CHOOSE j \in Ink(s, lo) : \A k \in Ink(s, lo) : j <= k
LastInk(s, lo) == CHOOSE j \in Ink(s, lo) : \A k \in Ink(s, lo) : j >= k
\* The segment has text, and the text begins with the comment marker.
IsCommentSegment(s, lo) ==
    /\ Ink(s, lo) # {}
    /\ FirstInk(s, lo) < LastInk(s, lo)
    /\ s[FirstInk(s, lo)] = "-" /\ s[FirstInk(s, lo) + 1] = "-"
\* Where the non-empty, non-comment segments start.
StatementStarts(s) ==
    {lo \in SegmentStarts(s) : Ink(s, lo) # {} /\ ~IsCommentSegment(s, lo)}
\* Their trimmed texts, in file order.
NonCommentSegments(s) ==
    LET starts == StatementStarts(s)
        nth == CHOOSE f \in [1..Cardinality(starts) -> starts] :
                   \A i, j \in 1..Cardinality(starts) : i < j => f[i] < f[j]
    IN  [k \in 1..Cardinality(starts) |->
            SubSeq(s, FirstInk(s, nth[k]), LastInk(s, nth[k]))]

\* The statements a call handed to cursor.execute, in the order of the calls.
Submitted(p) ==
    [k \in 1..Len(obs[p].submitted) |-> loc[p].statements[obs[p].submitted[k]]]
\* The statement loop ran to its end: connection.commit() was called.
LoopOver(p) == obs[p].commits > 0

RECURSIVE LinesFrom(_, _, _)
LinesFrom(s, i, cur) ==
    IF i > Len(s) THEN <<cur>>
    ELSE IF s[i] = "\n" THEN <<cur>> \o LinesFrom(s, i + 1, <<>>)
    ELSE LinesFrom(s, i + 1, Append(cur, s[i]))
\* 75-78: line = line.strip(); if not line or line.startswith('--'): continue
IsStatementLine(line) == ~SkippedByLoop(Strip(line))
\* cleaned_statements: the lines that are neither empty nor comments.
CleanedLines(s) == SelectSeq(LinesFrom(s, 1, <<>>), IsStatementLine)

\* C12 (as stated): comment lines are dropped before the split, so when a
\* reset has run its statement loop to the end, every segment of the file in
\* which a line that is not a comment follows comment lines was handed to
\* the database.
C12_AsStated ==
    \A p \in Callers :
        AtReturn(p) /\ LoopOver(p) =>
            \A i \in 1..Len(loc[p].statements) :
                CleanedLines(loc[p].statements[i]) # <<>> =>
                    \E k \in 1..Len(obs[p].submitted) : obs[p].submitted[k] = i

\* C13: the watchdog thread only ever sleeps, calls reset_database or is
\* about to sleep again.  It leaves a sleep only by calling reset_database,
\* once, and not before RESET_INTERVAL has passed since the sleep began;
\* whatever that call returned, success or failure, the thread can and does
\* nothing but start the next full sleep, without a further call.
C13_WatchdogLoopsForever ==
    /\ [](pc["watchdog"] \in {"unstarted", "sleep", "acquire", "returned"}
                                \cup ResetPcs)
    /\ [](pc["watchdog"] = "returned" => ENABLED WatchdogLoop)
    /\ [][pc["watchdog"] = "sleep" /\ pc'["watchdog"] # "sleep" =>
            /\ pc'["watchdog"] = "acquire"
            /\ now >= sleptAt + RESET_INTERVAL
            /\ calls' = calls + 1]_vars
    /\ [][pc["watchdog"] = "returned" /\ pc'["watchdog"] # "returned" =>
            /\ pc'["watchdog"] = "sleep"
            /\ sleptAt' = now /\ wakeAt' = now + RESET_INTERVAL
            /\ calls' = calls]_vars

\* The scheduled reset failed (as did the initial one, and no POST /reset
\* can have come in yet) and the watchdog is asleep again.
C13_Witness ==
    /\ pc["watchdog"] = "sleep"
    /\ pc["main"] = "start_flask"
    /\ calls = 2
    /\ reset_count = 0

\* C14: wait_for_database is on attempt 1..max_retries while it runs; a failed
\* attempt leads to the next one; it is left for good, either by the first
\* attempt that succeeds (main goes on to the initial reset) or by the failure
\* of attempt number max_retries (main exits with status 1).  In a process
\* that exited this way reset_database was never called, the watchdog was
\* never started, no handler ever ran, and nothing runs any more.
C14_BoundedStartupWait ==
    /\ [](pc["main"] = "wait_db" => attempt \in 1..max_retries)
    /\ [][pc["main"] = "wait_db" /\ pc'["main"] = "wait_db" =>
            attempt' = attempt \/ attempt' = attempt + 1]_vars
    /\ [][pc["main"] = "wait_db" /\ pc'["main"] # "wait_db" =>
            \/ pc'["main"] = "init_reset"
            \/ pc'["main"] = "exit1" /\ attempt = max_retries]_vars
    /\ [][pc["main"] # "wait_db" => pc'["main"] # "wait_db"]_vars
    /\ [](pc["main"] = "exit1" =>
            /\ calls = 0 /\ reset_count = 0 /\ conns = {}
            /\ pc["watchdog"] = "unstarted"
            /\ \A h \in Procs \ {"main", "watchdog"} : pc[h] = "idle")
    /\ [][pc["main"] = "exit1" => pc' = pc]_vars

\* All max_retries attempts failed and the process exited.
C14_Witness == pc["main"] = "exit1"

\* C15: GET /health can be taken up whenever the service is serving and,
\* once taken up, can always take its next step, whoever holds reset_lock;
\* no step of the handler changes reset_lock, reset_count, last_reset_time,
\* the seed file, a connection or a reset in progress; the lock is never
\* held by the handler; and every response is a 200, never the 500 of an
\* exception.
C15_HealthReadOnly ==
    /\ [](Serving /\ pc["health"] = "idle" => ENABLED HealthRequest)
    /\ [](pc["health"] \notin {"idle", "responded"} => ENABLED health_check)
    /\ [](reset_lock \in Callers \cup {Unlocked})
    /\ [](pc["health"] = "responded" =>
            resp["health"] # None /\ resp["health"][1].code = 200)
    /\ [][pc'["health"] # pc["health"] =>
            UNCHANGED <<reset_lock, reset_count, last_reset_time, seed, conns,
                        loc, calls, okReturns>>]_vars

\* The initial reset failed, another reset is at work on the database, and
\* GET /health has its 200.
C15_Witness ==
    /\ pc["health"] = "responded" /\ resp["health"][1].code = 200
    /\ reset_count = 0
    /\ \E p \in Callers : pc[p] \in DbPcs

\* C16: a POST /reset request starts one call of reset_database when it is
\* taken up and none afterwards, and the call never raises into the handler.
\* Its response is 200 / "success" with the call's message, a reset_count and
\* a timestamp when the call returned success, and otherwise 500 / "error"
\* with the failure message of that call and nothing else.
C16_ManualResponse ==
    /\ [](\A m \in Manual :
            /\ pc[m] # "raised"
            /\ pc[m] = "responded" =>
                 /\ resp[m] # None
                 /\ IF loc[m].result.ok
                    THEN /\ DOMAIN resp[m][1] = {"code", "status", "message",
                                                 "reset_count", "timestamp"}
                         /\ resp[m][1].code = 200
                         /\ resp[m][1].status = "success"
                         /\ resp[m][1].message = loc[m].result
                    ELSE resp[m][1] = [code |-> 500, status |-> "error",
                                       message |-> loc[m].result])
    /\ [][\A m \in Manual :
            pc'[m] # pc[m] =>
                calls' = IF pc[m] = "idle" THEN calls + 1 ELSE calls]_vars

\* One request was answered with its failure, the other with its success.
C16_Witness ==
    /\ pc["m1"] = "responded" /\ resp["m1"][1].code = 500
    /\ pc["m2"] = "responded" /\ resp["m2"][1].code = 200

\* C17: every call of reset_database looks at the seed file anew.  If the
\* file is missing when the call checks for it, the call ends with the
\* missing-file result; otherwise the text the call works on is the text in
\* the file at the moment the call reads it, the statements on the open
\* connection are parsed from that text, and a call that returns success has
\* handed the database the statements of that text.
C17_SeedReadEveryReset ==
    /\ [][\A p \in Callers :
            pc[p] = "exists" /\ pc'[p] # "exists" =>
                IF seed.exists
                THEN pc'[p] = "read"
                ELSE pc'[p] = "release" /\ loc'[p].result = Failure("notfound")]_vars
    /\ [][\A p \in Callers :
            pc[p] = "read" /\ pc'[p] = "connect" =>
                loc'[p].sql_script = seed.text]_vars
    /\ [](\A p \in Callers :
            pc[p] \in DbPcs =>
                loc[p].statements = ParseStatements(obs[p].fileRead[1]))
    /\ [](\A p \in Callers :
            AtReturn(p) /\ loc[p].result.ok =>
                Submitted(p) = NonCommentSegments(obs[p].fileRead[1]))

\* The initial reset succeeded on the file that was there, the file was
\* removed, and the scheduled reset that follows ends with the missing-file
\* result.
C17_Witness ==
    /\ AtReturn("watchdog") /\ obs["watchdog"].missing
    /\ loc["watchdog"].result = Failure("notfound")
    /\ pc["main"] = "start_flask"
    /\ obs["watchdog"].count0 = 1

\* C18 (as stated): every GET /health response reports "Never" exactly when
\* it reports reset_count = 0.
C18_AsStated ==
    pc["health"] = "responded" /\ resp["health"][1].code = 200 =>
        (resp["health"][1].last_reset = Never
            <=> resp["health"][1].reset_count = 0)

\* C18 (amended): the response that leaves at 195-198 reports "Never"
\* exactly when it reports reset_count = 0, provided that, when the handler
\* reads reset_count, no reset is between its two assignments (136, 137) and
\* no reset has set last_reset_time since the handler found it None at 194.
C18_SnapshotWhenUndisturbed ==
    [][(/\ pc["health"] = "h195" /\ pc'["health"] = "responded"
        /\ \A p \in Callers : pc[p] # "set_count"
        /\ (hloc.last_reset = Never => last_reset_time = None))
       => (resp'["health"][1].last_reset = Never
            <=> resp'["health"][1].reset_count = 0)]_vars

\* A response with a timestamp and the count of the resets so far, while no
\* reset is between its two assignments.
C18_Witness ==
    /\ pc["health"] = "responded"
    /\ resp["health"][1].last_reset # Never
    /\ resp["health"][1].reset_count = reset_count
    /\ reset_count >= 1
    /\ \A p \in Callers : pc[p] # "set_count"

\* C19 (as stated): the reset_count of a successful POST /reset response is
\* the N of the "Reset #N" message in the same response, that is, the count
\* the request's own reset produced.
C19_AsStated ==
    \A m \in Manual :
        pc[m] = "responded" /\ resp[m][1].code = 200 =>
            resp[m][1].reset_count = resp[m][1].message.n

\* C20: inside one call of reset_database the effects come in one order.
\* The connection is opened by the holder of the lock after it has read the
\* file; a statement is handed to the database only on the open connection
\* and before any commit; connection.commit() is called at most once, on the
\* open connection, when every statement has been attempted or skipped;
\* reset_count and last_reset_time change only in a call whose commit has
\* completed, while its connection is still open; the connection is closed
\* while the lock is still held, after the update if the call succeeds; and
\* the lock is released only once the connection is closed.  A call whose
\* commit was not called or raised leaves reset_count and last_reset_time as
\* it found them.
C20_OrderOfEffects ==
    /\ [][\A p \in Callers :
            /\ p \notin conns /\ p \in conns' =>
                 reset_lock = p /\ obs[p].fileRead # None
            /\ Len(obs'[p].submitted) > Len(obs[p].submitted) =>
                 p \in conns /\ obs[p].commits = 0
            /\ obs'[p].commits > obs[p].commits =>
                 /\ obs[p].commits = 0 /\ p \in conns
                 /\ loc[p].idx = Len(loc[p].statements) + 1
            /\ p \in conns /\ p \notin conns' =>
                 /\ reset_lock = p /\ reset_lock' = p
                 /\ loc[p].result.ok =>
                      reset_count = obs[p].count0 + 1 /\ last_reset_time # None
            /\ reset_lock = p /\ reset_lock' # p =>
                 /\ p \notin conns
                 /\ loc[p].result.ok =>
                      obs[p].commits = 1 /\ obs[p].opened]_vars
    /\ [][reset_count' # reset_count \/ last_reset_time' # last_reset_time =>
            \E p \in Callers :
                /\ reset_lock = p /\ p \in conns
                /\ pc[p] \in {"set_time", "set_count"}
                /\ obs[p].commits = 1 /\ loc[p].exc = "none"]_vars
    /\ [](\A p \in Callers :
            AtReturn(p) /\ (obs[p].commits = 0 \/ loc[p].exc # "none") =>
                /\ ~loc[p].result.ok
                /\ reset_count = obs[p].count0
                /\ last_reset_time = obs[p].time0)

\* A call has read the three-statement file, opened its connection, handed
\* over all three statements, committed, updated the state and closed the
\* connection, and is about to release the lock.
C20_Witness ==
    \E p \in Callers :
        /\ AtReturn(p) /\ loc[p].result.ok
        /\ obs[p].fileRead = Some(SeedThree)
        /\ obs[p].submitted = <<1, 2, 3>>
        /\ obs[p].commits = 1
        /\ p \notin conns /\ reset_lock = p

\* C21: a redemption decides on the row it read earlier, not on the row as
\* it is when it updates.  A request answers 400 exactly when the row it
\* read had current_uses >= max_uses, and the 400 carries those numbers;
\* otherwise it goes on to the update.  current_uses is changed only by a
\* request that read current_uses < max_uses, by one, whatever the row
\* holds by then; so it stays within max_uses - 1 plus the number of
\* concurrent requests, and nothing keeps it at or below max_uses.
C21_CheckThenUpdate ==
    /\ [][\A r \in Redeemers :
            redeem[r].pc = "check" /\ redeem'[r].pc # "check" =>
                LET row == redeem[r].coupon[1]
                IN  IF row.current_uses >= row.max_uses
                    THEN /\ redeem'[r].pc = "responded"
                         /\ redeem'[r].resp =
                              Some([code |-> 400,
                                    current_uses |-> row.current_uses,
                                    max_uses |-> row.max_uses])
                    ELSE redeem'[r].pc = "update"]_vars
    /\ [](\A r \in Redeemers :
            redeem[r].pc = "responded" /\ redeem[r].resp[1].code = 400 =>
                redeem[r].resp[1].current_uses >= redeem[r].resp[1].max_uses)
    /\ [][coupon' # coupon =>
            /\ coupon # None /\ coupon' # None
            /\ coupon'[1] = [coupon[1] EXCEPT !.current_uses = @ + 1]
            /\ \E r \in Redeemers :
                 /\ redeem[r].pc = "update" /\ redeem'[r].pc = "fetch"
                 /\ redeem[r].coupon[1].current_uses
                      < redeem[r].coupon[1].max_uses]_vars
    /\ [](coupon # None =>
            coupon[1].current_uses
                <= coupon[1].max_uses - 1 + Cardinality(Redeemers))

\* Three requests for an unused single-use coupon have all answered 200, and
\* the coupon stands at three uses.
C21_Witness ==
    /\ \A r \in Redeemers :
         redeem[r].pc = "responded" /\ redeem[r].resp[1].code = 200
    /\ coupon # None
    /\ coupon[1].max_uses = 1
    /\ coupon[1].current_uses = 3

\* C22 (as stated): in every reachable state reset_count equals the number
\* of calls of reset_database that have returned success.
C22_AsStated == reset_count = okReturns

\* The calls that have counted themselves (137) and not yet returned.
CountedNotReturned ==
    {p \in Callers : pc[p] \in {"close", "release"} /\ loc[p].result.ok}

\* C22 (amended): reset_count equals the number of calls that have returned
\* success plus the calls (one at most) that have incremented it and are
\* still on their way out; failed calls contribute nothing.  reset_count
\* never decreases, and last_reset_time, once set, stays set and never moves
\* to an earlier value.
C22_CountOfSuccesses ==
    /\ [](reset_count = okReturns + Cardinality(CountedNotReturned))
    /\ [](Cardinality(CountedNotReturned) <= 1)
    /\ [][reset_count' >= reset_count]_vars
    /\ [][last_reset_time # None =>
            /\ last_reset_time' # None
            /\ last_reset_time'[1] >= last_reset_time[1]]_vars

\* After a success and a failure that have returned, a second successful
\* call has counted itself and is about to return.
C22_Witness ==
    /\ okReturns = 1 /\ reset_count = 2
    /\ calls = 3
    /\ \E p \in Callers : AtReturn(p) /\ loc[p].result.ok
    /\ \A p \in Callers : pc[p] # "acquire"

\* C23: the initial reset never raises into main; when it has returned,
\* with success or with failure, main can take its next step and that step
\* starts the watchdog thread; main's step after that starts the HTTP
\* server, which therefore never serves without the watchdog; and main
\* exits only out of the startup wait for the database.
C23_FailedInitialResetNotFatal ==
    /\ [](pc["main"] # "raised")
    /\ [](pc["main"] = "returned" => ENABLED StartWatchdog)
    /\ [](pc["main"] = "start_flask" => ENABLED StartFlask)
    /\ [][pc["main"] = "returned" /\ pc'["main"] # "returned" =>
            pc'["main"] = "start_flask" /\ pc'["watchdog"] = "sleep"]_vars
    /\ [][pc["main"] = "start_flask" /\ pc'["main"] # "start_flask" =>
            pc'["main"] = "serving"]_vars
    /\ [](Serving => pc["watchdog"] # "unstarted")
    /\ [][pc'["main"] = "exit1" => pc["main"] \in {"wait_db", "exit1"}]_vars

\* The one reset so far, the initial one, failed; the watchdog sleeps and
\* the server serves.
C23_Witness ==
    /\ Serving
    /\ pc["watchdog"] = "sleep"
    /\ calls = 1 /\ okReturns = 0 /\ reset_count = 0
    /\ \A m \in Manual : pc[m] = "idle"

\* The order of main's positions (560-589).
MainOrder ==
    {<<"wait_db", "init_reset">>, <<"wait_db", "exit1">>,
     <<"init_reset", "acquire">>, <<"acquire", "exists">>,
     <<"exists", "read">>, <<"exists", "release">>,
     <<"read", "connect">>, <<"read", "release">>,
     <<"connect", "exec">>, <<"connect", "release">>,
     <<"exec", "set_time">>, <<"exec", "close">>,
     <<"set_time", "set_count">>, <<"set_count", "close">>,
     <<"close", "release">>, <<"release", "returned">>,
     <<"returned", "start_flask">>, <<"start_flask", "serving">>}
\* The HTTP handlers that have a request in hand.
Handling ==
    {h \in Manual \cup {"health"} : pc[h] # "idle"}

\* C24: main goes through its positions in one order: the wait for the
\* database, then one call of reset_database from its start to its return,
\* then the start of the watchdog, then the HTTP server.  Until that call
\* has returned it is the only call there is, the watchdog thread does not
\* exist and no handler has a request.  The watchdog thread is started by
\* main's step out of the returned initial reset and by no other step, and
\* requests are in hand only while main is inside app.run.
C24_BootOrder ==
    /\ [][pc'["main"] # pc["main"] => <<pc["main"], pc'["main"]>> \in MainOrder]_vars
    /\ [](pc["main"] \in {"wait_db", "init_reset", "exit1"} => calls = 0)
    /\ [](pc["main"] \in {"acquire", "returned"} \cup ResetPcs =>
            /\ calls = 1
            /\ \A p \in Callers \ {"main"} : pc[p] \in {"unstarted", "idle"})
    /\ [](pc["main"] \notin {"start_flask", "serving"} =>
            pc["watchdog"] = "unstarted")
    /\ [](pc["main"] # "serving" => Handling = {})
    /\ [][pc["watchdog"] = "unstarted" /\ pc'["watchdog"] # "unstarted" =>
            /\ pc["main"] = "returned" /\ pc'["main"] = "start_flask"
            /\ pc'["watchdog"] = "sleep"]_vars
    /\ [][pc["watchdog"] # "unstarted" => pc'["watchdog"] # "unstarted"]_vars

\* After boot: the server has requests in hand while the watchdog runs a
\* scheduled reset.
C24_Witness ==
    /\ pc["main"] = "serving"
    /\ pc["watchdog"] \in DbPcs
    /\ pc["m1"] = "acquire"
    /\ pc["health"] = "h195"

====
